---- MODULE Spec2Model ----
(***************************************************************************)
(* FreeRCT sprite codec: image store, 8bpp and 32bpp decoders, pixel query *)
(* and blitter (src/src/sprite_data.cpp), as a state machine.              *)
(*                                                                         *)
(* Byte buffers are sequences of 0..255, addressed 0-based through Rd.     *)
(* Pointers into a buffer are integer offsets from its start; pointers     *)
(* into the destination surface are offsets from cr.address.               *)
(***************************************************************************)
EXTENDS Integers, Sequences, FiniteSets, TLC

VARIABLES
    rcd_file,   \* the RCD block being read: name, version, size, bytes, pos
    sprites,    \* _sprites: the image store, in load order
    res,        \* what the last call returned and touched
    scr,        \* destination surface: colour at each offset from cr.address
    date        \* _date: day, month, year and frac of the program's date

vars == <<rcd_file, sprites, res, scr, date>>

-----------------------------------------------------------------------------
(* Bounds of the model.                                                    *)

MaxWidth8 == 2      \* 8bpp images are 1..MaxWidth8 wide
MaxData8 == 5       \* 8bpp run data is 0..MaxData8 bytes long
MaxWidth32 == 3     \* 32bpp images are 1..MaxWidth32 wide
MaxRuns32 == 2      \* runs in the line of a one-line 32bpp image
MaxBlitWidth == 2   \* blitted images are 1..MaxBlitWidth wide
MaxTiles == 2       \* numx and numy of a blit are at most MaxTiles
MaxSprites == 2     \* LoadImage calls that succeed before the store is full
MaxTicks == 2       \* OnTick calls made from a starting date

Heights8 == {1, 2}
Bytes8 == {0, 1, 128}

\* RGB triples of 32bpp pixels; their first bytes also read as mode bytes.
Pixels32 == {<<1, 2, 3>>, <<65, 0, 7>>}
\* Bytes read past the end of a buffer.
OobBytes == {0, 1, 193}
\* Palette indices of blitted 8bpp pixels: an opaque and a translucent one.
PixIdx8 == {1, 128}
\* The clipped rectangle blits draw to, and the positions they start at.
ClipRect == [width |-> 3, height |-> 3, pitch |-> 4]
BlitBases == {-1, 0, 1}

-----------------------------------------------------------------------------
(* Integer helpers.                                                        *)

\* A uint32 is held as the int32 with the same bits (UINT32_MAX is -1), so
\* that every value fits 32-bit signed integers; sums and differences wrap
\* through Wrap32 and comparisons are the unsigned ones.
Wrap32(x) ==
    IF x > 2147483647 THEN ((x - 2147483647) - 2147483647) - 2
    ELSE IF x < -2147483647 - 1 THEN ((x + 2147483647) + 2147483647) + 2
    ELSE x

\* a < b as uint32.
ULt(a, b) ==
    IF a >= 0 /\ b >= 0 THEN a < b
    ELSE IF a < 0 /\ b < 0 THEN a < b
    ELSE b < 0

RECURSIVE SeqsUpTo(_, _)
\* All sequences over S of length 0..n.
SeqsUpTo(S, n) ==
    IF n = 0 THEN {<<>>}
    ELSE LET shorter == SeqsUpTo(S, n - 1)
         IN  shorter \cup {Append(s, b) : s \in {t \in shorter : Len(t) = n - 1}, b \in S}

\* buf[i] with i counted from 0; a read outside the buffer yields oob.
Rd(buf, i, oob) == IF i >= 0 /\ i < Len(buf) THEN buf[i + 1] ELSE oob

\* The indices among idx that lie outside a buffer of n bytes.
Outside(idx, n) == {i \in idx : i < 0 \/ i >= n}

-----------------------------------------------------------------------------
(* Colours (palette.h).                                                    *)

OPAQUE == 255
TRANSPARENT == 0

MakeRGBA(r, g, b, a) == <<r % 256, g % 256, b % 256, a % 256>>
GetR(c) == c[1]
GetG(c) == c[2]
GetB(c) == c[3]
GetA(c) == c[4]

\* _palette[i]: entry 0 is the transparent colour, entries from 128 on are
\* translucent, all others opaque.
Palette(i) ==
    IF i = 0 THEN MakeRGBA(0, 0, 0, TRANSPARENT)
    ELSE IF i >= 128 THEN MakeRGBA(i, i, i, 128)
    ELSE MakeRGBA(i, i, i, OPAQUE)

-----------------------------------------------------------------------------
(* RcdFileReader (fileio.h): little-endian reads that advance the reader.  *)

LE16(v) == <<v % 256, (v \div 256) % 256>>
LE32(v) == <<v % 256, (v \div 256) % 256, (v \div 65536) % 256, (v \div 16777216) % 256>>

MkFile(name, version, bytes) ==
    [name |-> name, version |-> version, size |-> Len(bytes), bytes |-> bytes, pos |-> 0]

\* The reader when no block is being read.
NoFile == MkFile("", 0, <<>>)

PeekUInt16(f, at) == Rd(f.bytes, at, 0) + 256 * Rd(f.bytes, at + 1, 0)
PeekInt16(f, at) ==
    LET u == PeekUInt16(f, at) IN IF u >= 32768 THEN u - 65536 ELSE u
PeekUInt32(f, at) == PeekUInt16(f, at) + 65536 * PeekInt16(f, at + 2)
PeekBlob(f, at, n) == [i \in 1..n |-> Rd(f.bytes, at + i - 1, 0)]
Advance(f, n) == [f EXCEPT !.pos = @ + n]

-----------------------------------------------------------------------------
(* ImageData.                                                              *)

INVALID_JUMP == -1
IFG_IS_8BPP == 0

NewImage(is_8bpp) ==
    [flags |-> IF is_8bpp THEN 2 ^ IFG_IS_8BPP ELSE 0,
     width |-> 0, height |-> 0, xoffset |-> 0, yoffset |-> 0,
     table |-> <<>>, data |-> <<>>]

SizeLimitsOk(w, h) == ~(w = 0 \/ w > 300 \/ h = 0 \/ h > 500)

PayloadLimitOk(length) == length <= 100 * 1024

AfterHeader_SkipsYOffset(f) == Advance(f, 6)

\* The reader after the four 16 bit reads of the header.
AfterHeader(f) == Advance(f, 8)

\* ImageData::LoadSizes: [ok, img, f].
LoadSizes(img, f, length) ==
    IF length < 8 THEN [ok |-> FALSE, img |-> img, f |-> f]
    ELSE LET sized == [img EXCEPT !.width = PeekUInt16(f, f.pos),
                                  !.height = PeekUInt16(f, f.pos + 2),
                                  !.xoffset = PeekInt16(f, f.pos + 4),
                                  !.yoffset = PeekInt16(f, f.pos + 6)]
             g == AfterHeader(f)
         IN  IF ~SizeLimitsOk(sized.width, sized.height)
             THEN [ok |-> FALSE, img |-> sized, f |-> g]
             ELSE [ok |-> PayloadLimitOk(length - 8), img |-> sized, f |-> g]

-----------------------------------------------------------------------------
(* ImageData8bpp::LoadData.                                                *)

RebaseJump_NoSentinel(dest, jmp_table) == Wrap32(dest - jmp_table)

\* One jump table entry as stored: 0 is an empty row, anything else is
\* rebased by the size of the jump table (uint32 arithmetic).
RebaseJump(dest, jmp_table) ==
    IF dest = 0 THEN INVALID_JUMP ELSE Wrap32(dest - jmp_table)

JumpOk(dest, jmp_table, length) ==
    dest = 0 \/ ULt(RebaseJump(dest, jmp_table), length)

RunHeaderFails8_OneByte(offset, length) == offset + 1 >= length

\* The guard before a run's two header bytes are read.
RunHeaderFails8(offset, length) == offset + 2 >= length

\* The test after a run that is not the last of its row.
InnerRunFails8(xpos, offset, width, length) == xpos >= width \/ offset >= length

LastRunFails8_NoWidth(xpos, offset, width, length) == offset > length

\* The test after the last run of a row.
LastRunFails8(xpos, offset, width, length) == xpos > width \/ offset > length

RECURSIVE VerifyRow8(_, _, _, _)
\* The verification loop of one row, from run offset with xpos columns
\* covered so far: [ok, xpos, offset, runs], runs being the offsets of the
\* run headers that were read.
VerifyRow8(img, offset, xpos, runs) ==
    LET length == Len(img.data) IN
    IF RunHeaderFails8(offset, length)
    THEN [ok |-> FALSE, xpos |-> xpos, offset |-> offset, runs |-> runs]
    ELSE LET rel_pos == Rd(img.data, offset, 0)
             count == Rd(img.data, offset + 1, 0)
             nxpos == xpos + (rel_pos % 128) + count
             noffset == offset + 2 + count
             nruns == runs \cup {offset}
         IN  IF rel_pos \div 128 = 0
             THEN IF InnerRunFails8(nxpos, noffset, img.width, length)
                  THEN [ok |-> FALSE, xpos |-> nxpos, offset |-> noffset, runs |-> nruns]
                  ELSE VerifyRow8(img, noffset, nxpos, nruns)
             ELSE [ok |-> ~LastRunFails8(nxpos, noffset, img.width, length),
                   xpos |-> nxpos, offset |-> noffset, runs |-> nruns]

\* The verification of row i (counted from 0) of a loaded image.
VerifiedRow8(img, i) == VerifyRow8(img, img.table[i + 1], 0, {})

\* The verification loop over the rows of a loaded image.
VerifyImage8(img) ==
    \A i \in 0..(img.height - 1) :
        img.table[i + 1] = INVALID_JUMP \/ VerifiedRow8(img, i).ok

\* ImageData8bpp::LoadData: [ok, stage, img, f]; stage is "short" when the
\* block has no room for the jump table, "jump" when a jump table entry
\* was refused and "verify" when the table and the data were loaded.
LoadData8(img, f, size) ==
    LET jmp_table == 4 * img.height IN
    IF size <= jmp_table THEN [ok |-> FALSE, stage |-> "short", img |-> img, f |-> f]
    ELSE LET length == size - jmp_table
             raw(i) == PeekUInt32(f, f.pos + 4 * i)
             bad == {i \in 0..(img.height - 1) : ~JumpOk(raw(i), jmp_table, length)}
         IN  IF bad # {}
             THEN LET k == CHOOSE i \in bad : \A j \in bad : i <= j
                  IN  [ok |-> FALSE, stage |-> "jump",
                       img |-> [img EXCEPT !.table =
                                   [i \in 1..k |-> RebaseJump(raw(i - 1), jmp_table)]],
                       f |-> Advance(f, 4 * (k + 1))]
             ELSE LET g == Advance(f, jmp_table)
                       loaded == [img EXCEPT
                                   !.table = [i \in 1..img.height |->
                                                 RebaseJump(raw(i - 1), jmp_table)],
                                   !.data = PeekBlob(g, g.pos, length)]
                  IN  [ok |-> VerifyImage8(loaded), stage |-> "verify",
                       img |-> loaded, f |-> Advance(g, length)]

-----------------------------------------------------------------------------------------------------------------------------------------------------
(* ImageData8bpp::GetPixel.                                                *)

\* recolour->GetPalette(shift)[pixel] for the recolourings of the model:
\* "nullptr" is the absent recolouring, "identity" maps every index to
\* itself and "next" maps it to the index after it.
RecolourIndex(recolour, pixel) ==
    IF recolour = "next" THEN (pixel + 1) % 256 ELSE pixel

InRun8_Inclusive(xoffset, xpos, count) == xoffset - xpos <= count

\* Whether column xoffset lies in the opaque part of a run whose first
\* opaque column is xpos.
InRun8(xoffset, xpos, count) == xoffset - xpos < count

PixelAt8_OffByOne(offset, xoffset, xpos) == offset + 1 + xoffset - xpos

\* The index of the byte holding column xoffset of that run.
PixelAt8(offset, xoffset, xpos) == offset + 2 + xoffset - xpos

RECURSIVE GetPixelLoop8(_, _, _, _, _, _, _)
\* The run loop of GetPixel: [colour, reads, iters], reads being the
\* indices of the data bytes read and iters the iterations made.
GetPixelLoop8(img, xoffset, recolour, offset, xpos, reads, iters) ==
    IF ~(xpos <= xoffset)
    THEN [colour |-> Palette(0), reads |-> reads, iters |-> iters]
    ELSE LET rel_pos == Rd(img.data, offset, 0)
             count == Rd(img.data, offset + 1, 0)
             hdr == reads \cup {offset, offset + 1}
             at == xpos + (rel_pos % 128)
         IN  IF at > xoffset
             THEN [colour |-> Palette(0), reads |-> hdr, iters |-> iters + 1]
             ELSE IF InRun8(xoffset, at, count)
             THEN LET p == PixelAt8(offset, xoffset, at)
                      pixel == Rd(img.data, p, 0)
                  IN  [colour |-> Palette(IF recolour = "nullptr" THEN pixel
                                           ELSE RecolourIndex(recolour, pixel)),
                       reads |-> hdr \cup {p}, iters |-> iters + 1]
             ELSE IF rel_pos \div 128 # 0
             THEN [colour |-> Palette(0), reads |-> hdr, iters |-> iters + 1]
             ELSE GetPixelLoop8(img, xoffset, recolour, offset + 2 + count,
                                at + count, hdr, iters + 1)

\* ImageData8bpp::GetPixel: [colour, treads, reads, iters], treads being the
\* jump table entries read.
GetPixel8(img, xoffset, yoffset, recolour) ==
    IF xoffset >= img.width \/ yoffset >= img.height
    THEN [colour |-> Palette(0), treads |-> {}, reads |-> {}, iters |-> 0]
    ELSE LET offset == Rd(img.table, yoffset, INVALID_JUMP) IN
         IF offset = INVALID_JUMP
         THEN [colour |-> Palette(0), treads |-> {yoffset}, reads |-> {}, iters |-> 0]
         ELSE LET r == GetPixelLoop8(img, xoffset, recolour, offset, 0, {}, 0)
              IN  [colour |-> r.colour, treads |-> {yoffset}, reads |-> r.reads,
                   iters |-> r.iters]

-----------------------------------------------------------------------------
(* ImageData32bpp::LoadData.                                               *)

\* The repeat count and the kind of a mode byte.
ModeCount(mode) == mode % 64
ModeKind(mode) == mode \div 64

\* The bytes a run of the given mode holds after its mode byte, as the
\* verification skips them.
RunPayload32(mode) ==
    CASE ModeKind(mode) = 0 -> 3 * ModeCount(mode)
      [] ModeKind(mode) = 1 -> 1 + 3 * ModeCount(mode)
      [] ModeKind(mode) = 2 -> 0
      [] ModeKind(mode) = 3 -> 1 + 1 + ModeCount(mode)

RECURSIVE VerifyLine32(_, _, _, _, _)
\* The 'read line' loop from ptr up to end:
\* [ptr, xpos, finished_line, modes], modes being the offsets read as mode
\* bytes.
VerifyLine32(data, ptr, end, xpos, modes) ==
    IF ~(ptr < end)
    THEN [ptr |-> ptr, xpos |-> xpos, finished_line |-> FALSE, modes |-> modes]
    ELSE LET mode == Rd(data, ptr, 0) IN
         IF mode = 0
         THEN [ptr |-> ptr + 1, xpos |-> xpos, finished_line |-> TRUE,
               modes |-> modes \cup {ptr}]
         ELSE VerifyLine32(data, ptr + 1 + RunPayload32(mode), end,
                           xpos + ModeCount(mode), modes \cup {ptr})

LineWidthFails32_OffByOne(xpos, width) == xpos > width + 1

\* The test on the columns a line covers.
LineWidthFails32(xpos, width) == xpos > width

RECURSIVE VerifyLines32(_, _, _, _, _)
\* The loop over the lines from ptr on, lines being the lines verified so
\* far: [ok, ptr, lines, oob]. Each line is [start, xpos, modes]; oob tells
\* whether a byte past the buffer was read (the high byte of a length word
\* that starts at the last byte), which then reads as the byte oobyte.
VerifyLines32(img, ptr, finished, lines, oobyte) ==
    LET abs_end == Len(img.data) IN
    IF ~(ptr < abs_end /\ ~finished)
    THEN [ok |-> Len(lines) = img.height /\ ptr = abs_end, ptr |-> ptr,
          lines |-> lines, oob |-> FALSE]
    ELSE LET line_length == Rd(img.data, ptr, 0) + 256 * Rd(img.data, ptr + 1, oobyte)
             oob == ptr + 1 >= abs_end
             end == IF line_length = 0 THEN abs_end ELSE ptr + line_length
         IN  IF end > abs_end
             THEN [ok |-> FALSE, ptr |-> ptr, lines |-> lines, oob |-> oob]
             ELSE LET ln == VerifyLine32(img.data, ptr + 2, end, 0, {})
                      nlines == Append(lines, [start |-> ptr, xpos |-> ln.xpos,
                                               modes |-> ln.modes])
                  IN  IF LineWidthFails32(ln.xpos, img.width)
                         \/ ~ln.finished_line \/ ln.ptr # end
                      THEN [ok |-> FALSE, ptr |-> ln.ptr, lines |-> nlines, oob |-> oob]
                      ELSE LET rest == VerifyLines32(img, ln.ptr, line_length = 0,
                                                     nlines, oobyte)
                           IN  [rest EXCEPT !.oob = @ \/ oob]

\* The verification of a loaded 32bpp image.
VerifyImage32(img, oobyte) == VerifyLines32(img, 0, FALSE, <<>>, oobyte)

\* ImageData32bpp::LoadData: [ok, stage, img, f].
LoadData32(img, f, length, oobyte) ==
    LET loaded == [img EXCEPT !.data = PeekBlob(f, f.pos, length)]
    IN  [ok |-> VerifyImage32(loaded, oobyte).ok, stage |-> "verify",
         img |-> loaded, f |-> Advance(f, length)]

-----------------------------------------------------------------------------
(* ImageData32bpp::GetPixel.                                               *)

\* GetGradientShiftFunc(shift) applied to one channel: the normal shift
\* leaves it alone, the others brighten or darken it within 0..255.
ShiftFunc(shift, v) ==
    CASE shift = "GS_NORMAL" -> v
      [] shift = "GS_LIGHT" -> IF v + 64 > 255 THEN 255 ELSE v + 64
      [] shift = "GS_DARK" -> IF v < 64 THEN 0 ELSE v - 64
      [] OTHER -> v

\* recolour->GetRecolourTable(layer)[index]: an opaque colour that tells
\* the layer and the index apart.
RecolourTable(layer, index) == MakeRGBA(index, layer % 256, 0, OPAQUE)

\* The bytes GetPixel skips after the mode byte of a run that lies wholly
\* before the wanted column.
SkipPayload32(mode) ==
    CASE ModeKind(mode) = 0 -> 3 * ModeCount(mode)
      [] ModeKind(mode) = 1 -> 1 + 3 * ModeCount(mode)
      [] ModeKind(mode) = 2 -> 1
      [] ModeKind(mode) = 3 -> 1 + 1 + ModeCount(mode)

\* Whether the run of the given mode lies wholly before column xoffset,
\* counted from the run's first column.
RunBefore32(mode, xoffset) == ModeCount(mode) < xoffset

\* The pixel of the run at ptr (the byte after its mode byte) that GetPixel
\* returns for column xoffset of the run: [colour, reads].
DecodePixel32(data, mode, ptr, xoffset, recolour, shift, oobyte) ==
    LET b(i) == Rd(data, i, oobyte) IN
    CASE ModeKind(mode) = 0 ->
            LET p == ptr + 3 * xoffset IN
            [colour |-> MakeRGBA(ShiftFunc(shift, b(p)), ShiftFunc(shift, b(p + 1)),
                                 ShiftFunc(shift, b(p + 2)), OPAQUE),
             reads |-> {p, p + 1, p + 2}]
      [] ModeKind(mode) = 1 ->
            LET p == ptr + 1 + 3 * xoffset IN
            [colour |-> MakeRGBA(ShiftFunc(shift, b(p)), ShiftFunc(shift, b(p + 1)),
                                 ShiftFunc(shift, b(p + 2)), b(ptr)),
             reads |-> {ptr, p, p + 1, p + 2}]
      [] ModeKind(mode) = 2 -> [colour |-> Palette(0), reads |-> {}]
      [] ModeKind(mode) = 3 ->
            IF recolour = "nullptr"
            THEN [colour |-> MakeRGBA(0, 0, 0, b(ptr + 1)), reads |-> {ptr + 1}]
            ELSE LET p == ptr + 2 + xoffset
                     recoloured == RecolourTable(b(ptr) - 1, b(p))
                 IN  [colour |-> MakeRGBA(ShiftFunc(shift, GetR(recoloured)),
                                          ShiftFunc(shift, GetG(recoloured)),
                                          ShiftFunc(shift, GetB(recoloured)), b(ptr + 1)),
                      reads |-> {ptr, ptr + 1, p}]

RECURSIVE GetPixelLine32(_, _, _, _, _, _, _, _)
\* The run loop of GetPixel from ptr on: [colour, reads, modes]. A mode
\* byte read past the buffer ends the walk: what follows is whatever the
\* memory there holds.
GetPixelLine32(data, ptr, xoffset, recolour, shift, oobyte, reads, modes) ==
    IF ~(xoffset > 0)
    THEN [colour |-> Palette(0), reads |-> reads, modes |-> modes]
    ELSE IF ptr < 0 \/ ptr >= Len(data)
    THEN [colour |-> Palette(0), reads |-> reads \cup {ptr}, modes |-> modes \cup {ptr}]
    ELSE LET mode == Rd(data, ptr, oobyte)
             nreads == reads \cup {ptr}
             nmodes == modes \cup {ptr}
         IN  IF mode = 0
             THEN [colour |-> Palette(0), reads |-> nreads, modes |-> nmodes]
             ELSE IF RunBefore32(mode, xoffset)
             THEN GetPixelLine32(data, ptr + 1 + SkipPayload32(mode),
                                 xoffset - ModeCount(mode), recolour, shift, oobyte,
                                 nreads, nmodes)
             ELSE LET d == DecodePixel32(data, mode, ptr + 1, xoffset, recolour,
                                         shift, oobyte)
                  IN  [colour |-> d.colour, reads |-> nreads \cup d.reads,
                       modes |-> nmodes]

RECURSIVE SkipLines32(_, _, _, _, _)
\* The loop that skips yoffset lines by their length words: [ptr, reads].
SkipLines32(data, ptr, yoffset, oobyte, reads) ==
    IF ~(yoffset > 0) THEN [ptr |-> ptr, reads |-> reads]
    ELSE LET length == Rd(data, ptr, oobyte) + 256 * Rd(data, ptr + 1, oobyte)
         IN  SkipLines32(data, ptr + length, yoffset - 1, oobyte,
                         reads \cup {ptr, ptr + 1})

\* ImageData32bpp::GetPixel: [colour, reads, modes].
GetPixel32(img, xoffset, yoffset, recolour, shift, oobyte) ==
    IF xoffset >= img.width \/ yoffset >= img.height
    THEN [colour |-> Palette(0), reads |-> {}, modes |-> {}]
    ELSE LET sk == SkipLines32(img.data, 0, yoffset, oobyte, {})
         IN  GetPixelLine32(img.data, sk.ptr + 2, xoffset, recolour, shift, oobyte,
                            sk.reads, {})

-----------------------------------------------------------------------------
(* BlitPixel and BlendPixels.                                              *)

\* A blit in progress: the surface, the writes made to it and the reads
\* made of it (each with its pointer and the position the code held for
\* it), the tile rows the last BlitPixel call visited, and whether some
\* BlitPixel call went on to another tile row after one at or below the
\* bottom of the clipped rectangle. blends holds the BlendPixels calls made:
\* the position the code held and the r, g, b and opacity it passed.
NewBlit(mem) ==
    [mem |-> mem, writes |-> {}, dreads |-> {}, blends |-> {}, visits |-> <<>>,
     overrun |-> FALSE]

\* *scr = colour, the code holding position (x, y) for scr.
Poke(st, scr_ptr, x, y, colour) ==
    [st EXCEPT !.mem = IF scr_ptr >= 0 /\ scr_ptr < Len(@)
                       THEN [@ EXCEPT ![scr_ptr + 1] = colour] ELSE @,
               !.writes = @ \cup {[ptr |-> scr_ptr, x |-> x, y |-> y]}]

\* The test that ends BlitPixel at a tile row below the rectangle.
RowStops(ymin, cr) == ymin >= cr.height

ColStops_Inclusive(x, cr) == x > cr.width

\* The test that ends a tile row at a column right of the rectangle.
ColStops(x, cr) == x >= cr.width

RECURSIVE BlitPixelCols(_, _, _, _, _, _, _, _)
\* The loop over the tile columns of one tile row.
BlitPixelCols(cr, st, scr_ptr, x, xend, y, width, colour) ==
    IF ~(x < xend) \/ ColStops(x, cr) THEN st
    ELSE BlitPixelCols(cr, IF x >= 0 THEN Poke(st, scr_ptr, x, y, colour) ELSE st,
                       scr_ptr + width, x + width, xend, y, width, colour)

RECURSIVE BlitPixelRows(_, _, _, _, _, _, _, _, _, _)
\* The loop over the tile rows.
BlitPixelRows(cr, st, scr_base, xmin, ymin, xend, yend, width, height, colour) ==
    IF ~(ymin < yend) THEN st
    ELSE LET seen == [st EXCEPT !.visits = Append(@, ymin)] IN
         IF RowStops(ymin, cr) THEN seen
         ELSE BlitPixelRows(cr,
                  IF ymin >= 0
                  THEN BlitPixelCols(cr, seen, scr_base, xmin, xend, ymin, width, colour)
                  ELSE seen,
                  scr_base + height * cr.pitch, xmin, ymin + height, xend, yend,
                  width, height, colour)

\* Whether the tile rows visited went on after one at or below the bottom.
Overran(cr, visits) == \E i \in 1..(Len(visits) - 1) : visits[i] >= cr.height

\* BlitPixel: the blit after the call.
BlitPixel(cr, st, scr_base, xmin, ymin, numx, numy, width, height, colour) ==
    LET done == BlitPixelRows(cr, [st EXCEPT !.visits = <<>>], scr_base, xmin, ymin,
                              xmin + numx * width, ymin + numy * height,
                              width, height, colour)
    IN  [done EXCEPT !.overrun = @ \/ Overran(cr, done.visits)]

\* BlendPixels.
BlendPixels(r, g, b, old_pixel, opacity) ==
    MakeRGBA((r * opacity + GetR(old_pixel) * (256 - opacity)) \div 256,
             (g * opacity + GetG(old_pixel) * (256 - opacity)) \div 256,
             (b * opacity + GetB(old_pixel) * (256 - opacity)) \div 256, OPAQUE)

\* *src_base, the code holding position (x, y) for it: the blit with the
\* read recorded. A read outside the surface yields the colour oob.
Peek(st, src_base, oob) ==
    IF src_base >= 0 /\ src_base < Len(st.mem) THEN st.mem[src_base + 1] ELSE oob

Peeked(st, src_base, x, y) ==
    [st EXCEPT !.dreads = @ \cup {[ptr |-> src_base, x |-> x, y |-> y]}]

\* The blit with a BlendPixels call recorded.
Blended(st, x, y, r, g, b, opacity) ==
    [st EXCEPT !.blends = @ \cup {[x |-> x, y |-> y, r |-> r, g |-> g, b |-> b,
                                   opacity |-> opacity]}]

-----------------------------------------------------------------------------
(* ImageData8bpp::BlitImages.                                              *)

\* What one blit call is given besides the image and the surface.
\* args: [cr, x_base, y_base, numx, numy, recolour, shift, oob].

\* The colour written for the source byte pixel at src_base.
BlitColour8(st, args, pixel, src_base) ==
    LET colour == Palette(RecolourIndex(args.recolour, pixel)) IN
    IF GetA(colour) # OPAQUE
    THEN BlendPixels(GetR(colour), GetG(colour), GetB(colour),
                     Peek(st, src_base, args.oob), GetA(colour))
    ELSE colour

RECURSIVE BlitRun8(_, _, _, _, _, _, _, _)
\* The loop over the count pixels of a run, the next at data offset pixels.
BlitRun8(img, args, st, pixels, count, xpos, ypos, src_base) ==
    IF ~(count > 0) THEN st
    ELSE LET pixel == Rd(img.data, pixels, 0)
             translucent == GetA(Palette(RecolourIndex(args.recolour, pixel))) # OPAQUE
             colour == BlitColour8(st, args, pixel, src_base)
             pal == Palette(RecolourIndex(args.recolour, pixel))
             rd == IF translucent
                   THEN Blended(Peeked(st, src_base, xpos, ypos), xpos, ypos,
                                GetR(pal), GetG(pal), GetB(pal), GetA(pal))
                   ELSE st
         IN  BlitRun8(img, args,
                      BlitPixel(args.cr, rd, src_base, xpos, ypos, args.numx, args.numy,
                                img.width, img.height, colour),
                      pixels + 1, count - 1, xpos + 1, ypos, src_base + 1)

RECURSIVE BlitRow8(_, _, _, _, _, _, _)
\* The loop over the runs of a row, the next at data offset offset.
BlitRow8(img, args, st, offset, xpos, ypos, src_base) ==
    LET rel_off == Rd(img.data, offset, 128)
        count == Rd(img.data, offset + 1, 0)
        nxpos == xpos + (rel_off % 128)
        nsrc == src_base + (rel_off % 128)
        after == BlitRun8(img, args, st, offset + 2, count, nxpos, ypos, nsrc)
    IN  IF rel_off \div 128 # 0 THEN after
        ELSE BlitRow8(img, args, after, offset + 2 + count, nxpos + count, ypos,
                      nsrc + count)

RECURSIVE BlitRows8(_, _, _, _, _, _)
\* The loop over the rows from row yoff on.
BlitRows8(img, args, st, yoff, ypos, line_base) ==
    IF ~(yoff < img.height) THEN st
    ELSE LET offset == img.table[yoff + 1] IN
         BlitRows8(img, args,
                   IF offset # INVALID_JUMP
                   THEN BlitRow8(img, args, st, offset, args.x_base, ypos, line_base)
                   ELSE st,
                   yoff + 1, ypos + 1, line_base + args.cr.pitch)

\* ImageData8bpp::BlitImages: the blit after the call.
BlitImages8(img, args, mem) ==
    BlitRows8(img, args, NewBlit(mem), 0, args.y_base,
              args.x_base + args.cr.pitch * args.y_base)

-----------------------------------------------------------------------------
(* ImageData32bpp::BlitImages.                                             *)

OPACITY_SEMI_TRANSPARENT == 128

\* The opacity of a run under the shift of the call.
CappedOpacity(shift, opacity) ==
    IF shift = "GS_SEMI_TRANSPARENT" /\ opacity > OPACITY_SEMI_TRANSPARENT
    THEN OPACITY_SEMI_TRANSPARENT ELSE opacity

\* The r, g, b and opacity passed to BlendPixels for one pixel of a run of
\* the given kind, its bytes at data offset src.
BlendArgs32(img, args, kind, layer, opacity, src) ==
    LET b(k) == Rd(img.data, src + k, 0)
        sf(v) == ShiftFunc(args.shift, v)
    IN  CASE kind = 0 ->
                [r |-> 255, g |-> 255, b |-> 255, opacity |-> OPACITY_SEMI_TRANSPARENT]
          [] kind = 1 ->
                [r |-> sf(b(0)), g |-> sf(b(1)), b |-> sf(b(2)), opacity |-> opacity]
          [] kind = 3 ->
                LET colour == RecolourTable(layer - 1, b(0))
                IN  [r |-> sf(GetR(colour)), g |-> sf(GetG(colour)),
                     b |-> sf(GetB(colour)), opacity |-> opacity]

\* The colour written for one pixel of a run of the given kind, its bytes
\* at data offset src: kind 0 in the semi-transparent shift blends white,
\* kind 0 otherwise is the shifted RGB, kind 1 blends the shifted RGB and
\* kind 3 blends the shifted colour of the recolour table of layer.
BlitColour32(img, args, st, kind, layer, opacity, src, src_base) ==
    LET b(k) == Rd(img.data, src + k, 0)
        sf(v) == ShiftFunc(args.shift, v)
        old == Peek(st, src_base, args.oob)
        ba == BlendArgs32(img, args, kind, layer, opacity, src)
    IN  IF kind = 0 /\ args.shift # "GS_SEMI_TRANSPARENT"
        THEN MakeRGBA(sf(b(0)), sf(b(1)), sf(b(2)), OPAQUE)
        ELSE BlendPixels(ba.r, ba.g, ba.b, old, ba.opacity)

\* Whether that pixel is written without reading the surface.
WritesUnblended32(args, kind) == kind = 0 /\ args.shift # "GS_SEMI_TRANSPARENT"

RECURSIVE BlitRun32(_, _, _, _, _, _, _, _, _, _, _)
\* The loop over the count pixels of a run of kind 0, 1 or 3, the bytes of
\* the next pixel at data offset src.
BlitRun32(img, args, st, kind, layer, opacity, src, count, xpos, ypos, src_base) ==
    IF ~(count > 0) THEN st
    ELSE LET colour == BlitColour32(img, args, st, kind, layer, opacity, src, src_base)
             ba == BlendArgs32(img, args, kind, layer, opacity, src)
             rd == IF WritesUnblended32(args, kind) THEN st
                   ELSE Blended(Peeked(st, src_base, xpos, ypos), xpos, ypos,
                                ba.r, ba.g, ba.b, ba.opacity)
         IN  BlitRun32(img, args,
                       BlitPixel(args.cr, rd, src_base, xpos, ypos, args.numx, args.numy,
                                 img.width, img.height, colour),
                       kind, layer, opacity, src + (IF kind = 3 THEN 1 ELSE 3),
                       count - 1, xpos + 1, ypos, src_base + 1)

RECURSIVE BlitLine32(_, _, _, _, _, _, _)
\* The loop over the runs of a line, the next mode byte at data offset
\* src: [st, src], src being the offset after the closing mode byte.
BlitLine32(img, args, st, src, xpos, ypos, src_base) ==
    LET mode == Rd(img.data, src, 0)
        count == ModeCount(mode)
        kind == ModeKind(mode)
    IN  IF mode = 0 THEN [st |-> st, src |-> src + 1]
        ELSE CASE kind = 0 ->
                    BlitLine32(img, args,
                               BlitRun32(img, args, st, 0, 0, OPAQUE, src + 1, count,
                                         xpos, ypos, src_base),
                               src + 1 + 3 * count, xpos + count, ypos, src_base + count)
               [] kind = 1 ->
                    BlitLine32(img, args,
                               BlitRun32(img, args, st, 1, 0,
                                         CappedOpacity(args.shift, Rd(img.data, src + 1, 0)),
                                         src + 2, count, xpos, ypos, src_base),
                               src + 2 + 3 * count, xpos + count, ypos, src_base + count)
               [] kind = 2 ->
                    BlitLine32(img, args, st, src + 1, xpos + count, ypos,
                               src_base + count)
               [] kind = 3 ->
                    BlitLine32(img, args,
                               BlitRun32(img, args, st, 3, Rd(img.data, src + 1, 0),
                                         CappedOpacity(args.shift, Rd(img.data, src + 2, 0)),
                                         src + 3, count, xpos, ypos, src_base),
                               src + 3 + count, xpos + count, ypos, src_base + count)

RECURSIVE BlitLines32(_, _, _, _, _, _, _)
\* The loop over the lines from line yoff on, src at its first mode byte.
BlitLines32(img, args, st, yoff, ypos, line_base, src) ==
    IF ~(yoff < img.height) THEN st
    ELSE LET ln == BlitLine32(img, args, st, src, args.x_base, ypos, line_base)
         IN  BlitLines32(img, args, ln.st, yoff + 1, ypos + 1,
                         line_base + args.cr.pitch, ln.src + 2)

\* ImageData32bpp::BlitImages: the blit after the call.
BlitImages32(img, args, mem) ==
    BlitLines32(img, args, NewBlit(mem), 0, args.y_base,
                args.x_base + args.cr.pitch * args.y_base, 2)

-----
(* LoadImage and the image store.                                          *)

Is8bpp(name) == name = "8PXL"

PushBack_Front(store, img) == <<img>> \o store

\* _sprites.push_back(std::move(imd)).
PushBack(store, img) == Append(store, img)

\* _sprites.back().get(): images are named by their place in the store, and
\* nullptr is 0.
Back(store) == Len(store)
Nullptr == 0

\* The store and the returned pointer after a LoadImage call that ended
\* with result r.
Stored(store, r) ==
    IF r.ok THEN [sprites |-> PushBack(store, r.img), ret |-> Back(PushBack(store, r.img))]
    ELSE [sprites |-> store, ret |-> Nullptr]

ExpectedVersion(is_8bpp) == IF is_8bpp THEN 2 ELSE 1

\* LoadImage: [ok, stage, img, f]; stage is "version" when the record was
\* refused before decoding, "sizes" when LoadSizes refused it, and the
\* stage LoadData reached otherwise.
LoadImage(f, oobyte) ==
    LET is_8bpp == Is8bpp(f.name) IN
    IF f.version # ExpectedVersion(is_8bpp)
    THEN [ok |-> FALSE, stage |-> "version", img |-> NewImage(is_8bpp), f |-> f]
    ELSE LET sz == LoadSizes(NewImage(is_8bpp), f, f.size) IN
         IF ~sz.ok THEN [ok |-> FALSE, stage |-> "sizes", img |-> sz.img, f |-> sz.f]
         ELSE IF is_8bpp THEN LoadData8(sz.img, sz.f, f.size - 8)
         ELSE LoadData32(sz.img, sz.f, f.size - 8, oobyte)

-----------------------------------------------------------------------------
(* Date (dates.h, dates.cpp).                                              *)

TICK_COUNT_PER_DAY == 300

CDB_DAY_LENGTH == 5
CDB_MONTH_LENGTH == 4
CDB_YEAR_LENGTH == 7
CDB_FRAC_LENGTH == 10
CDB_DAY_START == 0
CDB_MONTH_START == CDB_DAY_START + CDB_DAY_LENGTH
CDB_YEAR_START == CDB_MONTH_START + CDB_MONTH_LENGTH
CDB_FRAC_START == CDB_YEAR_START + CDB_YEAR_LENGTH

FIRST_MONTH == 3
LAST_MONTH == 9

\* _days_per_month[m]; an index past the array reads as 0.
DaysPerMonth(m) ==
    Rd(<<0, 31, 28, 31, 30, 31, 30, 31, 31, 30, 31, 30, 31>>, m, 0)

MkDate(pday, pmonth, pyear, pfrac) ==
    [day |-> pday, month |-> pmonth, year |-> pyear, frac |-> pfrac]

\* Date::Date(): the default date.
DefaultDate == MkDate(1, FIRST_MONTH, 1, 0)

\* The four assertions of Date::Date(pday, pmonth, pyear, pfrac).
DateAsserts(d) ==
    /\ d.day > 0 /\ d.day <= DaysPerMonth(d.month)
    /\ d.month > 0 /\ d.month < 13
    /\ d.year > 0 /\ d.year < 2 ^ CDB_YEAR_LENGTH
    /\ d.frac >= 0 /\ d.frac < TICK_COUNT_PER_DAY

RECURSIVE BitOr(_, _)
\* a | b of two non-negative integers.
BitOr(a, b) ==
    IF a = 0 THEN b
    ELSE IF b = 0 THEN a
    ELSE (IF a % 2 = 1 \/ b % 2 = 1 THEN 1 ELSE 0) + 2 * BitOr(a \div 2, b \div 2)

\* GB(x, s, n): the n bits of x from bit s on.
GB(x, s, n) == (x \div (2 ^ s)) % (2 ^ n)

\* Date::Compress.
Compress(d) ==
    BitOr(BitOr(d.year * (2 ^ CDB_YEAR_START), d.month * (2 ^ CDB_MONTH_START)),
          BitOr(d.day * (2 ^ CDB_DAY_START), d.frac * (2 ^ CDB_FRAC_START)))

\* Date::Date(CompressedDate cd): the fields it passes on.
DateOfCompressed(cd) ==
    MkDate(GB(cd, CDB_DAY_START, CDB_DAY_LENGTH), GB(cd, CDB_MONTH_START, CDB_MONTH_LENGTH),
           GB(cd, CDB_YEAR_START, CDB_YEAR_LENGTH), GB(cd, CDB_FRAC_START, CDB_FRAC_LENGTH))

\* Date::OnTick: [date, newday, newmonth, newyear], the last three telling
\* which of OnNewDay, OnNewMonth and OnNewYear it called.
OnTick(d) ==
    LET ticked == [d EXCEPT !.frac = @ + 1] IN
    IF ticked.frac < TICK_COUNT_PER_DAY
    THEN [date |-> ticked, newday |-> FALSE, newmonth |-> FALSE, newyear |-> FALSE]
    ELSE LET dayed == [ticked EXCEPT !.frac = 0, !.day = @ + 1] IN
         IF dayed.day > DaysPerMonth(dayed.month)
         THEN LET is_last_month == dayed.month = LAST_MONTH
                  monthed == [dayed EXCEPT !.day = 1, !.month = @ + 1]
              IN  IF is_last_month \/ monthed.month > 12
                  THEN [date |-> [monthed EXCEPT !.month = FIRST_MONTH, !.year = @ + 1],
                        newday |-> TRUE, newmonth |-> TRUE, newyear |-> TRUE]
                  ELSE [date |-> monthed, newday |-> TRUE, newmonth |-> TRUE,
                        newyear |-> FALSE]
         ELSE [date |-> dayed, newday |-> TRUE, newmonth |-> FALSE, newyear |-> FALSE]

-----------------------------------------------------------------------------------------------------------------------------------------------------
(* Image store specification: records of any tag and version are loaded    *)
(* one after the other, and the store is cleared.                          *)

Header(w, h) == LE16(w) \o LE16(h) \o LE16(0) \o LE16(0)

\* Blocks a record may hold: a good 8bpp image, a good 32bpp image, an
\* 8bpp image with a run past its width, a 32bpp image whose line lacks
\* its closing 0, an image of width 0, and a block too short for a header.
StoreBlocks ==
    {Header(1, 1) \o LE32(4) \o <<128, 1, 1>>,
     Header(1, 1) \o LE16(7) \o <<1, 1, 2, 3, 0>>,
     Header(1, 1) \o LE32(4) \o <<129, 1, 1>>,
     Header(1, 1) \o LE16(6) \o <<1, 1, 2, 3>>,
     Header(0, 1) \o LE16(3) \o <<0>>,
     <<1, 0, 1>>}

\* The tag of 8bpp records, the tag of 32bpp records and a tag of neither.
StoreNames == {"8PXL", "32PX", "XXXX"}

StoreFiles ==
    {MkFile(n, v, b) : n \in StoreNames, v \in {1, 2, 3}, b \in StoreBlocks}

Init ==
    /\ rcd_file = NoFile
    /\ sprites = <<>>
    /\ res = [op |-> "none"]
    /\ scr = <<>>
    /\ date = DefaultDate

\* InitImageStorage: reserves room, the store's contents are as before.
InitImageStorage ==
    /\ res.op = "none"
    /\ res' = [op |-> "InitImageStorage"]
    /\ UNCHANGED <<rcd_file, sprites, scr, date>>

\* LoadImage on the next record of an RCD file.
LoadRecord ==
    /\ Len(sprites) < MaxSprites
    /\ \E f \in StoreFiles, oobyte \in OobBytes :
        LET r == LoadImage(f, oobyte) IN
        /\ rcd_file' = r.f
        /\ sprites' = Stored(sprites, r).sprites
        /\ res' = [op |-> "LoadImage", stage |-> r.stage, ok |-> r.ok,
                   ret |-> Stored(sprites, r).ret, img |-> r.img]
    /\ UNCHANGED <<scr, date>>

\* Widths, heights and remaining lengths LoadSizes is called with: at and
\* beyond each limit, and lengths that leave no room for the header.
SizeWidths == {0, 1, 300, 301}
SizeHeights == {0, 1, 500, 501}
SizeLengths == {0, 7, 8, 9, 8 + 100 * 1024, 9 + 100 * 1024}

\* A block of length bytes of which only the header is looked at: the
\* reader holds the header bytes that exist.
SizedFile(w, h, length) ==
    [MkFile("8PXL", 2, SubSeq(Header(w, h), 1, IF length < 8 THEN length ELSE 8))
        EXCEPT !.size = length]

\* LoadSizes called on a new image at the start of a block.
CallLoadSizes ==
    /\ \E w \in SizeWidths, h \in SizeHeights, length \in SizeLengths :
          LET r == LoadSizes(NewImage(TRUE), SizedFile(w, h, length), length) IN
          /\ rcd_file' = r.f
          /\ res' = [op |-> "LoadSizes", ok |-> r.ok, length |-> length, img |-> r.img]
    /\ UNCHANGED <<sprites, scr, date>>

\* DestroyImageStorage.
DestroyImageStorage ==
    /\ sprites' = <<>>
    /\ res' = [op |-> "DestroyImageStorage"]
    /\ UNCHANGED <<rcd_file, scr, date>>

Next == InitImageStorage \/ LoadRecord \/ CallLoadSizes \/ DestroyImageStorage

Spec == Init /\ [][Next]_vars

-----
(* 8bpp decoder specification: every file of a bounded shape is loaded.    *)

\* Jump table entries tried for a table of jmp_table bytes: an empty row,
\* rows starting at data offsets 0 and 3 and, for one-row images, an entry
\* that points into the table itself.
Jumps8(jmp_table) ==
    {0, jmp_table, jmp_table + 3} \cup (IF jmp_table = 4 THEN {jmp_table - 1} ELSE {})

RECURSIVE Flatten(_)
Flatten(ss) == IF ss = <<>> THEN <<>> ELSE Head(ss) \o Flatten(Tail(ss))

Files8 ==
    {MkFile("8PXL", 2, Header(w, Len(jt)) \o Flatten([i \in 1..Len(jt) |-> LE32(jt[i])]) \o d) :
        w \in 1..MaxWidth8,
        jt \in UNION {[1..h -> Jumps8(4 * h)] : h \in Heights8},
        d \in SeqsUpTo(Bytes8, MaxData8)}

\* A block of width 2 and height 1 with one raw jump table entry and one
\* run of two pixels.
Scenario8(raw, control, idx0, idx1) ==
    MkFile("8PXL", 2, Header(2, 1) \o LE32(raw) \o <<control, 2, idx0, idx1>>)

ScenarioIdx8 == {1, 2, 128}

\* Such blocks with the raw entry 0 or 4 (the first data byte) and a last
\* run that skips no column or one.
ScenarioFiles8 ==
    {Scenario8(raw, control, idx0, idx1) :
        raw \in {0, 4}, control \in {128, 129}, idx0 \in ScenarioIdx8, idx1 \in ScenarioIdx8}

Init8 ==
    /\ rcd_file \in Files8 \cup ScenarioFiles8
    /\ sprites = <<>>
    /\ res = [op |-> "none"]
    /\ scr = <<>>
    /\ date = DefaultDate

Load8 ==
    /\ res.op = "none"
    /\ LET r == LoadImage(rcd_file, 0) IN
        /\ rcd_file' = r.f
        /\ sprites' = Stored(sprites, r).sprites
        /\ res' = [op |-> "LoadImage", stage |-> r.stage, ok |-> r.ok,
                   ret |-> Stored(sprites, r).ret, img |-> r.img]
    /\ UNCHANGED <<scr, date>>

\* A caller queries one pixel of the image LoadImage returned, inside or
\* just outside the image.
Query8 ==
    /\ res.op = "LoadImage" /\ res.ok
    /\ \E x \in 0..sprites[res.ret].width, y \in 0..sprites[res.ret].height :
          LET img == sprites[res.ret]
              r == GetPixel8(img, x, y, "nullptr")
          IN  res' = [op |-> "GetPixel", ret |-> res.ret, x |-> x, y |-> y,
                      colour |-> r.colour, treads |-> r.treads, reads |-> r.reads,
                      iters |-> r.iters]
    /\ UNCHANGED <<rcd_file, sprites, scr, date>>

Next8 == Load8 \/ Query8

Spec8 == Init8 /\ [][Next8]_vars

-----------------------------------------------------------------------------------------------------------------------------------------------------
(* 32bpp decoder specification: files built from runs, and short raw ones. *)

\* The runs a line is built from: one or two opaque pixels, one transparent
\* column, one half-opaque pixel, one recoloured pixel of layer 1.
Runs32 ==
    {<<1>> \o p : p \in Pixels32}
    \cup {<<2, 1, 2, 3, 65, 0, 7>>, <<129>>, <<65, 128, 1, 2, 3>>, <<193, 1, 255, 5>>}

\* The bodies of lines of at most n runs.
Bodies32(n) == {Flatten(rs) : rs \in SeqsUpTo(Runs32, n)}

\* A line block: its length word and its bytes. The length word counts
\* itself ("exact"), is 0 ("zero") or is one too large ("long").
Line32(body, prefix) ==
    LE16(CASE prefix = "exact" -> 2 + Len(body)
           [] prefix = "zero" -> 0
           [] prefix = "long" -> 3 + Len(body)) \o body

\* One-line payloads (the line may lack its closing 0) and two-line ones.
Payloads32 ==
    {Line32(b \o t, pf) :
        b \in Bodies32(MaxRuns32), t \in {<<0>>, <<>>}, pf \in {"exact", "zero", "long"}}
    \cup {Line32(b1 \o <<0>>, p1) \o Line32(b2 \o <<0>>, p2) :
        b1 \in Bodies32(1), b2 \in Bodies32(1),
        p1 \in {"exact", "zero"}, p2 \in {"exact", "zero", "long"}}
    \cup SeqsUpTo({0, 1, 3}, 3)

Files32 ==
    {MkFile("32PX", 1, Header(w, h) \o d) :
        w \in 1..MaxWidth32, h \in {1, 2}, d \in Payloads32}

\* A block of width 1 and height 1 whose line holds one opaque pixel and
\* the closing 0 after a length word of the given value, with the bytes
\* tail after it.
Scenario32(length, pixel, tail) ==
    MkFile("32PX", 1, Header(1, 1) \o LE16(length) \o <<1>> \o pixel \o <<0>> \o tail)

\* Such blocks with a length word that counts the 5 bytes after it or the
\* 7 bytes with it, alone or followed by a length word 0.
ScenarioFiles32 ==
    {Scenario32(length, pixel, tail) :
        length \in {5, 7}, pixel \in Pixels32, tail \in {<<>>, <<0, 0>>}}

Init32 ==
    /\ rcd_file \in Files32 \cup ScenarioFiles32
    /\ sprites = <<>>
    /\ res = [op |-> "none"]
    /\ scr = <<>>
    /\ date = DefaultDate

Load32 ==
    /\ res.op = "none"
    /\ \E oobyte \in OobBytes :
        LET r == LoadImage(rcd_file, oobyte) IN
        /\ rcd_file' = r.f
        /\ sprites' = Stored(sprites, r).sprites
        /\ res' = [op |-> "LoadImage", stage |-> r.stage, ok |-> r.ok,
                   ret |-> Stored(sprites, r).ret, img |-> r.img]
    /\ UNCHANGED <<scr, date>>

\* A caller queries one pixel of the image LoadImage returned, inside or
\* just outside the image.
Query32 ==
    /\ res.op = "LoadImage" /\ res.ok
    /\ \E x \in 0..sprites[res.ret].width, y \in 0..sprites[res.ret].height,
          oobyte \in OobBytes :
          LET img == sprites[res.ret]
              r == GetPixel32(img, x, y, "nullptr", "GS_NORMAL", oobyte)
          IN  res' = [op |-> "GetPixel", ret |-> res.ret, x |-> x, y |-> y,
                      colour |-> r.colour, reads |-> r.reads, modes |-> r.modes]
    /\ UNCHANGED <<rcd_file, sprites, scr, date>>

Next32 == Load32 \/ Query32

Spec32 == Init32 /\ [][Next32]_vars

-----------------------------------------------------------------------------
(* Blitter specification: well-formed images are loaded and blitted, and   *)
(* BlitPixel is called on its own.                                         *)

\* One 8bpp run: skip columns, then the pixels; last tells the high bit.
Run8(skip, pixels, last) ==
    <<skip + (IF last THEN 128 ELSE 0), Len(pixels)>> \o pixels

\* The 8bpp rows of n + 1 runs, the last one closing the row.
RECURSIVE BlitRowsOf8(_)
BlitRowsOf8(n) ==
    IF n = 0
    THEN {Run8(skip, px, TRUE) : skip \in {0, 1}, px \in SeqsUpTo(PixIdx8, 2)}
    ELSE {Run8(skip, px, FALSE) \o rest :
             skip \in {0, 1}, px \in SeqsUpTo(PixIdx8, 2), rest \in BlitRowsOf8(n - 1)}

\* An 8bpp block of the given rows (<<>> for an empty row), each row's
\* jump table entry pointing at its bytes.
RECURSIVE JumpsOf(_, _)
JumpsOf(rows, at) ==
    IF rows = <<>> THEN <<>>
    ELSE (IF Head(rows) = <<>> THEN LE32(0) ELSE LE32(at))
         \o JumpsOf(Tail(rows), at + Len(Head(rows)))

Block8(w, rows) ==
    Header(w, Len(rows)) \o JumpsOf(rows, 4 * Len(rows)) \o Flatten(rows)

BlitFiles8 ==
    {MkFile("8PXL", 2, Block8(w, <<row>>)) :
        w \in 1..MaxBlitWidth,
        row \in BlitRowsOf8(0) \cup BlitRowsOf8(1)}
    \cup {MkFile("8PXL", 2, Block8(w, <<r1, r2>>)) :
        w \in 1..MaxBlitWidth,
        r1 \in BlitRowsOf8(0) \cup {<<>>}, r2 \in BlitRowsOf8(0)}

BlitFiles32 ==
    {MkFile("32PX", 1, Header(w, 1) \o Line32(b \o <<0>>, pf)) :
        w \in 1..MaxBlitWidth, b \in Bodies32(2), pf \in {"exact", "zero"}}
    \cup {MkFile("32PX", 1, Header(w, 2) \o Line32(b1 \o <<0>>, "exact")
                                         \o Line32(b2 \o <<0>>, pf)) :
        w \in 1..MaxBlitWidth, b1 \in Bodies32(1), b2 \in Bodies32(1),
        pf \in {"exact", "zero"}}

\* The surface before a blit: an opaque colour that differs at every
\* offset.
Background(cr) ==
    [i \in 1..(cr.pitch * cr.height) |-> MakeRGBA(100 + i, 50, 200, OPAQUE)]

\* Colours read outside the surface.
OobColours == {MakeRGBA(0, 0, 0, 0), MakeRGBA(255, 255, 255, OPAQUE)}

InitBlit ==
    /\ rcd_file \in BlitFiles8 \cup BlitFiles32 \cup {NoFile}
    /\ sprites = <<>>
    /\ res = [op |-> "none"]
    /\ scr = Background(ClipRect)
    /\ date = DefaultDate

LoadBlit ==
    /\ res.op = "none" /\ rcd_file # NoFile
    /\ LET r == LoadImage(rcd_file, 0) IN
        /\ rcd_file' = r.f
        /\ sprites' = Stored(sprites, r).sprites
        /\ res' = [op |-> "LoadImage", stage |-> r.stage, ok |-> r.ok,
                   ret |-> Stored(sprites, r).ret, img |-> r.img]
    /\ UNCHANGED <<scr, date>>

\* Whether an image is an 8bpp one (the virtual call picks its BlitImages).
Has8bppFlag(img) == (img.flags \div (2 ^ IFG_IS_8BPP)) % 2 = 1

\* The renderer blits the image LoadImage returned.
Blit ==
    /\ res.op = "LoadImage" /\ res.ok
    /\ \E x_base \in BlitBases, y_base \in BlitBases,
          numx \in 1..MaxTiles, numy \in 1..MaxTiles,
          recolour \in {"identity", "next"},
          shift \in {"GS_NORMAL", "GS_SEMI_TRANSPARENT"},
          oob \in OobColours :
          LET img == sprites[res.ret]
              args == [cr |-> ClipRect, x_base |-> x_base, y_base |-> y_base,
                       numx |-> numx, numy |-> numy, recolour |-> recolour,
                       shift |-> shift, oob |-> oob]
              st == IF Has8bppFlag(img) THEN BlitImages8(img, args, scr)
                    ELSE BlitImages32(img, args, scr)
          IN  /\ Has8bppFlag(img) => shift = "GS_NORMAL"
              /\ ~Has8bppFlag(img) => recolour = "identity"
              \* what a read outside the surface yields matters only to
              \* a blit that makes one
              /\ Outside({r.ptr : r \in st.dreads}, Len(scr)) = {}
                    => oob = MakeRGBA(0, 0, 0, 0)
              /\ scr' = st.mem
              /\ res' = [op |-> "BlitImages", ret |-> res.ret, args |-> args,
                         writes |-> st.writes, dreads |-> st.dreads,
                         blends |-> st.blends,
                         visits |-> st.visits, overrun |-> st.overrun]
    /\ UNCHANGED <<rcd_file, sprites, date>>

\* BlitPixel called on its own, for a pixel of an image of any size at any
\* position, scr_base being the pointer for that position.
CallBlitPixel ==
    /\ res.op = "none" /\ rcd_file = NoFile
    /\ \E xmin \in -1..ClipRect.width, ymin \in -1..ClipRect.height,
          numx \in 0..MaxTiles, numy \in 0..MaxTiles,
          width \in 1..2, height \in 1..2 :
          LET args == [cr |-> ClipRect, x_base |-> xmin, y_base |-> ymin,
                       numx |-> numx, numy |-> numy, width |-> width,
                       height |-> height]
              st == BlitPixel(ClipRect, NewBlit(scr), xmin + ClipRect.pitch * ymin,
                              xmin, ymin, numx, numy, width, height,
                              MakeRGBA(1, 2, 3, OPAQUE))
          IN  /\ scr' = st.mem
              /\ res' = [op |-> "BlitPixel", args |-> args, writes |-> st.writes,
                         dreads |-> st.dreads, visits |-> st.visits,
                         overrun |-> st.overrun]
    /\ UNCHANGED <<rcd_file, sprites, date>>

NextBlit == LoadBlit \/ Blit \/ CallBlitPixel

SpecBlit == InitBlit /\ [][NextBlit]_vars

-----------------------------------------------------------------------------
(* Blending specification: BlendPixels is called on its own.               *)

\* Channel values of the new pixel, background pixels and opacities.
BlendChannels == {0, 128, 255}
BlendBackgrounds ==
    {MakeRGBA(0, 0, 0, OPAQUE), MakeRGBA(255, 255, 255, OPAQUE), MakeRGBA(1, 128, 254, OPAQUE)}
BlendOpacities == {0, 1, 128, 255}

InitBlend ==
    /\ rcd_file = NoFile
    /\ sprites = <<>>
    /\ res = [op |-> "none"]
    /\ scr = <<>>
    /\ date = DefaultDate

\* One call of BlendPixels.
CallBlendPixels ==
    /\ \E r \in BlendChannels, g \in BlendChannels, b \in BlendChannels,
          old_pixel \in BlendBackgrounds, opacity \in BlendOpacities :
          res' = [op |-> "BlendPixels", r |-> r, g |-> g, b |-> b,
                  old_pixel |-> old_pixel, opacity |-> opacity,
                  colour |-> BlendPixels(r, g, b, old_pixel, opacity)]
    /\ UNCHANGED <<rcd_file, sprites, scr, date>>

NextBlend == CallBlendPixels

SpecBlend == InitBlend /\ [][NextBlend]_vars

-----------------------------------------------------------------------------
(* Date specification: the date is ticked on from dates the ticks of the   *)
(* default date lead to, and saved and loaded.                             *)

\* Dates that OnTick calls reach from the default date: any day of a month
\* from FIRST_MONTH to LAST_MONTH, in the first year and in the last two
\* years the year field holds, at the start and near the end of the day.
DateYears == {1, 2 ^ CDB_YEAR_LENGTH - 2, 2 ^ CDB_YEAR_LENGTH - 1}
DateFracs == {0, TICK_COUNT_PER_DAY - 2, TICK_COUNT_PER_DAY - 1}
DateStarts ==
    {dt \in [day : 1..31, month : FIRST_MONTH..LAST_MONTH, year : DateYears,
             frac : DateFracs] : dt.day <= DaysPerMonth(dt.month)}

InitDate ==
    /\ rcd_file = NoFile
    /\ sprites = <<>>
    /\ res = [op |-> "none", ticks |-> 0]
    /\ scr = <<>>
    /\ date \in DateStarts

\* One tick of the game. A failed assertion has ended the program.
Tick ==
    /\ res.ticks < MaxTicks
    /\ ~(res.op = "SaveLoad" /\ ~res.asserts)
    /\ LET r == OnTick(date) IN
        /\ date' = r.date
        /\ res' = [op |-> "OnTick", ticks |-> res.ticks + 1, newday |-> r.newday,
                   newmonth |-> r.newmonth, newyear |-> r.newyear]
    /\ UNCHANGED <<rcd_file, sprites, scr>>

\* Date::Save followed by Date::Load of the block it wrote: the date is
\* built from the compressed date.
SaveLoad ==
    /\ res.op # "SaveLoad"
    /\ LET cd == Compress(date)
           loaded == DateOfCompressed(cd)
       IN  /\ date' = loaded
           /\ res' = [op |-> "SaveLoad", ticks |-> res.ticks, cd |-> cd, before |-> date,
                      asserts |-> DateAsserts(loaded)]
    /\ UNCHANGED <<rcd_file, sprites, scr>>

NextDate == Tick \/ SaveLoad

SpecDate == InitDate /\ [][NextDate]_vars

-----------------------------------------------------------------------------
(* Claims about LoadImage and the image store, under Spec.                 *)

\* The two recognised pairs of tag and version.
Recognised(f) ==
    (f.name = "8PXL" /\ f.version = 2) \/ (f.name = "32PX" /\ f.version = 1)

\* C1: LoadImage refuses every record whose tag and version are not one of
\* the two recognised pairs, before LoadSizes or LoadData is called.
C1_UnrecognisedNeverDecoded ==
    (res.op = "LoadImage" /\ ~Recognised(rcd_file)) =>
        (res.stage = "version" /\ ~res.ok)

\* One step of the store as C2 has it.
C2_StoreStep ==
    /\ (res'.op = "LoadImage" /\ ~res'.ok) => (sprites' = sprites /\ res'.ret = Nullptr)
    /\ (res'.op = "LoadImage" /\ res'.ok) =>
          /\ Len(sprites') = Len(sprites) + 1
          /\ \A i \in 1..Len(sprites) : sprites'[i] = sprites[i]
          /\ res'.ret = Len(sprites')
          /\ sprites'[res'.ret] = res'.img
    /\ res'.op = "DestroyImageStorage" => sprites' = <<>>
    /\ res'.op \notin {"LoadImage", "DestroyImageStorage"} => sprites' = sprites

\* C2: a LoadImage call that fails returns nullptr and leaves the store as
\* it was; one that succeeds appends its image after the images held and
\* returns the place of that image; DestroyImageStorage empties the store
\* and nothing else changes it.
C2_StoreAppendOnly == [][C2_StoreStep]_vars

\* A call that succeeded on a store that already held another image.
C2_Witness ==
    res.op = "LoadImage" /\ res.ok /\ Len(sprites) = 2 /\ sprites[1] # sprites[2]

\* C14 as stated: LoadSizes advances the reader by exactly 8 bytes on
\* every path, whether it succeeds or fails.
C14_AlwaysAdvances8 ==
    res.op = "LoadSizes" => rcd_file.pos = 8

\* C14 as the code has it: LoadSizes advances the reader by exactly 8
\* bytes whenever at least 8 bytes remain, whether the sizes are in their
\* limits or not and whether the payload is within 100 KiB or not; with
\* fewer than 8 bytes it fails without reading, the reader and the sizes
\* of the image staying as they were.
C14_AdvancesWhenHeaderRead ==
    res.op = "LoadSizes" =>
        IF res.length < 8
        THEN rcd_file.pos = 0 /\ ~res.ok /\ res.img = NewImage(TRUE)
        ELSE rcd_file.pos = 8

\* A call refused for its payload alone, after the header was read.
C14_Witness ==
    /\ res.op = "LoadSizes" /\ ~res.ok /\ rcd_file.pos = 8
    /\ res.length - 8 > 100 * 1024
    /\ SizeLimitsOk(res.img.width, res.img.height)

\* A call refused for a width or height out of limits.
C14_WitnessLimits ==
    /\ res.op = "LoadSizes" /\ ~res.ok /\ rcd_file.pos = 8
    /\ ~SizeLimitsOk(res.img.width, res.img.height)

-----
(* Claims about the 8bpp decoder, under Spec8.                             *)

\* The image a finished LoadImage call worked on was verified row by row.
Verified == res.op = "LoadImage" /\ res.stage = "verify"

\* The rows of img that have run data.
Rows8(img) == {i \in 0..(img.height - 1) : img.table[i + 1] # INVALID_JUMP}

RECURSIVE RowRule8(_, _, _, _)
\* The acceptance rule as the specification words it: walk the runs from
\* cursor; a run without the high bit must leave x < width and the cursor
\* strictly inside the buffer, the first run with the high bit must leave
\* x <= width and the cursor <= the buffer length. A run whose two header
\* bytes are not both in the buffer cannot be walked.
RowRule8(data, width, cursor, x) ==
    /\ cursor + 1 < Len(data)
    /\ LET control == Rd(data, cursor, 0)
           count == Rd(data, cursor + 1, 0)
           nx == x + (control % 128) + count
           ncursor == cursor + 2 + count
       IN  IF control \div 128 = 0
           THEN nx < width /\ ncursor < Len(data) /\ RowRule8(data, width, ncursor, nx)
           ELSE nx <= width /\ ncursor <= Len(data)

RECURSIVE RowRuleGuarded8(_, _, _, _)
\* The same rule with one more condition: every run starts at a cursor
\* with cursor + 2 < buffer length.
RowRuleGuarded8(data, width, cursor, x) ==
    /\ cursor + 2 < Len(data)
    /\ LET control == Rd(data, cursor, 0)
           count == Rd(data, cursor + 1, 0)
           nx == x + (control % 128) + count
           ncursor == cursor + 2 + count
       IN  IF control \div 128 = 0
           THEN nx < width /\ ncursor < Len(data)
                /\ RowRuleGuarded8(data, width, ncursor, nx)
           ELSE nx <= width /\ ncursor <= Len(data)

\* C3 as claimed: once the jump table is accepted, LoadData succeeds
\* exactly when every non-empty row passes the rule of the specification.
C3_AcceptsExactlyByRule ==
    Verified =>
        (res.ok <=> \A i \in Rows8(res.img) :
                       RowRule8(res.img.data, res.img.width, res.img.table[i + 1], 0))

\* C3 as amended: once the jump table is accepted, LoadData succeeds
\* exactly when every non-empty row passes the rule and every run of it
\* starts at a cursor with cursor + 2 < buffer length.
C3_AcceptsExactlyByGuardedRule ==
    Verified =>
        (res.ok <=> \A i \in Rows8(res.img) :
                       RowRuleGuarded8(res.img.data, res.img.width, res.img.table[i + 1], 0))

\* An accepted image with a row of two runs, and a refused one whose row
\* fails only for the place of its last run header.
C3_Witness ==
    /\ Verified /\ res.ok
    /\ \E i \in Rows8(res.img) : Cardinality(VerifiedRow8(res.img, i).runs) >= 2

\* The header offsets of the runs the verification walked in any row.
Runs8(img) == UNION {VerifiedRow8(img, i).runs : i \in Rows8(img)}

\* Every non-empty row's runs sum to exactly the width.
RowsExact8(img) == \A i \in Rows8(img) : VerifiedRow8(img, i).xpos = img.width

\* No non-empty row's runs sum to more than the width.
RowsAtMost8(img) == \A i \in Rows8(img) : VerifiedRow8(img, i).xpos <= img.width

\* img with the count byte of the run at header offset run set to count.
WithCount8(img, run, count) == [img EXCEPT !.data[run + 2] = count]

\* The images got from an accepted image by changing one run's count.
CountMutations8(img) ==
    UNION {{WithCount8(img, run, count) :
                count \in (0..(MaxData8 + 1)) \ {Rd(img.data, run + 1, 0)}} :
           run \in Runs8(img)}

\* C4 as claimed: from an accepted image whose rows sum to exactly the
\* width, any change of one run's count that leaves a row summing to
\* something else than the width makes the verification fail.
C4_AnyOtherSumFails ==
    (Verified /\ res.ok /\ RowsExact8(res.img)) =>
        \A m \in CountMutations8(res.img) : ~RowsExact8(m) => ~VerifyImage8(m)

\* C4 as amended: from an accepted image whose rows sum to exactly the
\* width, any change of one run's count that leaves a row summing to more
\* than the width makes the verification fail.
C4_LargerSumFails ==
    (Verified /\ res.ok /\ RowsExact8(res.img)) =>
        \A m \in CountMutations8(res.img) : ~RowsAtMost8(m) => ~VerifyImage8(m)

\* An exact image with one mutation refused for a larger sum and another
\* accepted with a smaller sum.
C4_Witness ==
    /\ Verified /\ res.ok /\ RowsExact8(res.img)
    /\ \E m \in CountMutations8(res.img) : ~RowsAtMost8(m) /\ ~VerifyImage8(m)
    /\ \E m \in CountMutations8(res.img) : ~RowsExact8(m) /\ VerifyImage8(m)

\* C6: a pixel query of an accepted image at a position inside it reads
\* only jump table entries and data bytes that exist and makes no more
\* loop iterations than the row has runs; a query at x >= width or
\* y >= height returns palette entry 0 and reads nothing of the image.
C6_GetPixelReadsInside ==
    res.op = "GetPixel" =>
        LET img == sprites[res.ret] IN
        IF res.x < img.width /\ res.y < img.height
        THEN /\ Outside(res.treads, img.height) = {}
             /\ Outside(res.reads, Len(img.data)) = {}
             /\ res.y \in Rows8(img) =>
                   res.iters <= Cardinality(VerifiedRow8(img, res.y).runs)
        ELSE res.colour = Palette(0) /\ res.treads = {} /\ res.reads = {}

\* A query that walks past a first run into the pixel of a second one.
C6_Witness ==
    /\ res.op = "GetPixel" /\ res.iters >= 2
    /\ res.colour # Palette(0)
    /\ res.x < sprites[res.ret].width

\* A query outside the image.
C6_WitnessOutside ==
    res.op = "GetPixel" /\ res.x >= sprites[res.ret].width

\* The colour the scenario expects of a query at column x of row 0.
ScenarioColour8(x, idx0, idx1) ==
    IF x = 0 THEN Palette(idx0) ELSE IF x = 1 THEN Palette(idx1) ELSE Palette(0)

\* C12 as stated: the image of width 2 and height 1 with jump table [0]
\* and row data [0x81, 2, idx0, idx1] is accepted, and GetPixel returns
\* the palette colour of idx0 at (0,0), of idx1 at (1,0) and of index 0 at
\* (2,0).
C12_ScenarioAsStated ==
    \A idx0 \in ScenarioIdx8, idx1 \in ScenarioIdx8 :
        rcd_file.bytes = Scenario8(0, 129, idx0, idx1).bytes =>
            /\ res.op = "LoadImage" => res.ok
            /\ (res.op = "GetPixel" /\ res.y = 0) =>
                  res.colour = ScenarioColour8(res.x, idx0, idx1)

\* C12 as the code decodes it: that image is accepted with its row marked
\* empty (raw entry 0), so GetPixel returns the colour of index 0 at
\* (0,0), (1,0) and (2,0); the image with raw entry 4 (data offset 0) and
\* row data [0x80, 2, idx0, idx1] is accepted, and GetPixel returns the
\* palette colour of idx0 at (0,0), of idx1 at (1,0) and of index 0 at
\* (2,0).
C12_ScenarioAsDecoded ==
    \A idx0 \in ScenarioIdx8, idx1 \in ScenarioIdx8 :
        /\ rcd_file.bytes = Scenario8(0, 129, idx0, idx1).bytes =>
              /\ res.op = "LoadImage" => res.ok /\ res.img.table = <<INVALID_JUMP>>
              /\ (res.op = "GetPixel" /\ res.y = 0) => res.colour = Palette(0)
        /\ rcd_file.bytes = Scenario8(4, 128, idx0, idx1).bytes =>
              /\ res.op = "LoadImage" => res.ok /\ res.img.table = <<0>>
              /\ (res.op = "GetPixel" /\ res.y = 0) =>
                    res.colour = ScenarioColour8(res.x, idx0, idx1)

\* The second pixel of the run is queried in the image with raw entry 4.
C12_Witness ==
    /\ rcd_file.bytes = Scenario8(4, 128, 1, 128).bytes
    /\ res.op = "GetPixel" /\ res.x = 1 /\ res.y = 0
    /\ res.colour = Palette(128)

\* The first pixel is queried in the image with raw entry 0.
C12_WitnessEmptyRow ==
    /\ rcd_file.bytes = Scenario8(0, 129, 1, 128).bytes
    /\ res.op = "GetPixel" /\ res.x = 0 /\ res.y = 0

-----------------------------------------------------------------------------
(* Claims about the 32bpp decoder, under Spec32.                           *)

\* The lines the verification walked in an image, in order.
Lines32(img) == VerifyImage32(img, 0).lines

\* C5 as claimed: an accepted true-colour image has no line whose run
\* counts sum to something else than the width, be it more or less.
C5_AnyOtherSumFails ==
    (Verified /\ res.ok) =>
        \A i \in 1..Len(Lines32(res.img)) : Lines32(res.img)[i].xpos = res.img.width

\* C5 as amended: an accepted true-colour image has no line whose run
\* counts sum to more than the width.
C5_LargerSumFails ==
    (Verified /\ res.ok) =>
        \A i \in 1..Len(Lines32(res.img)) : Lines32(res.img)[i].xpos <= res.img.width

\* A refused image whose only fault is a line summing to more than the
\* width.
C5_Witness ==
    /\ Verified /\ ~res.ok
    /\ LET v == VerifyImage32([res.img EXCEPT !.width = MaxWidth32 + 1], 0)
       IN  v.ok /\ \E i \in 1..Len(v.lines) : v.lines[i].xpos > res.img.width

\* An accepted image with a line summing to less than the width.
C5_WitnessShort ==
    /\ Verified /\ res.ok
    /\ \E i \in 1..Len(Lines32(res.img)) :
          /\ Lines32(res.img)[i].xpos < res.img.width
          /\ Lines32(res.img)[i].xpos > 0

\* The offsets the verification read as mode bytes in an image.
Modes32(img) == UNION {Lines32(img)[i].modes : i \in 1..Len(Lines32(img))}

\* C7: a pixel query of an accepted true-colour image at a position inside
\* it reads only bytes of the data buffer and reads as mode bytes only
\* bytes the verification read as mode bytes.
C7_GetPixelFollowsVerification ==
    (res.op = "GetPixel" /\ res.x < sprites[res.ret].width
                         /\ res.y < sprites[res.ret].height) =>
        /\ Outside(res.reads, Len(sprites[res.ret].data)) = {}
        /\ res.modes \subseteq Modes32(sprites[res.ret])

\* C13: the image of width 1 and height 1 whose payload is a line with
\* length word 5 holding mode byte 1, three RGB bytes and the closing 0,
\* followed by a length word 0, is accepted, and GetPixel(0,0) returns
\* that RGB with full opacity.
C13_ScenarioAsStated ==
    \A pixel \in Pixels32 :
        rcd_file.bytes = Scenario32(5, pixel, <<0, 0>>).bytes =>
            /\ res.op = "LoadImage" => res.ok
            /\ (res.op = "GetPixel" /\ res.x = 0 /\ res.y = 0) =>
                  res.colour = MakeRGBA(pixel[1], pixel[2], pixel[3], OPAQUE)

\* The same line under a length word that counts itself, with nothing
\* after it: accepted, and GetPixel(0,0) still does not return the RGB.
C13_SelfCountingLine ==
    \A pixel \in Pixels32 :
        rcd_file.bytes = Scenario32(7, pixel, <<>>).bytes =>
            /\ res.op = "LoadImage" => res.ok
            /\ (res.op = "GetPixel" /\ res.x = 0 /\ res.y = 0) =>
                  res.colour = Palette(0)

-----------------------------------------------------------------------------
(* Claims about the blitter, under SpecBlit.                               *)

\* The surface offset of position (x, y) of a clipped rectangle.
PtrOf(cr, x, y) == x + cr.pitch * y

\* A finished blit of one placement whose image lies wholly inside the
\* clipped rectangle.
BlitOnceInside ==
    /\ res.op = "BlitImages"
    /\ res.args.numx = 1 /\ res.args.numy = 1
    /\ res.args.x_base >= 0 /\ res.args.y_base >= 0
    /\ res.args.x_base + sprites[res.ret].width <= res.args.cr.width
    /\ res.args.y_base + sprites[res.ret].height <= res.args.cr.height

RECURSIVE RowPixels8(_, _, _)
\* The pixels of an 8bpp row by the format: pairs <<column, data offset>>
\* of the runs from offset on, xpos columns lying before them.
RowPixels8(data, offset, xpos) ==
    LET first == xpos + (Rd(data, offset, 128) % 128)
        count == Rd(data, offset + 1, 0)
        here == {<<first + k, offset + 2 + k>> : k \in 0..(count - 1)}
    IN  IF Rd(data, offset, 128) \div 128 # 0 THEN here
        ELSE here \cup RowPixels8(data, offset + 2 + count, first + count)

\* Every pixel of an 8bpp image lies in an opaque run and has a fully
\* opaque palette colour.
FullyOpaque8(img) ==
    \A y \in 0..(img.height - 1) :
        /\ img.table[y + 1] # INVALID_JUMP
        /\ \A x \in 0..(img.width - 1) :
              \E px \in RowPixels8(img.data, img.table[y + 1], 0) :
                  px[1] = x /\ GetA(Palette(Rd(img.data, px[2], 0))) = OPAQUE

\* C8: one placement of a fully opaque 8bpp image, blitted with the
\* identity recolouring into a rectangle that holds it, leaves at every
\* position (x_base + x, y_base + y) the colour GetPixel(x, y) returns.
C8_BlitMatchesGetPixel8 ==
    (BlitOnceInside /\ Has8bppFlag(sprites[res.ret])
        /\ res.args.recolour = "identity" /\ FullyOpaque8(sprites[res.ret])) =>
        LET img == sprites[res.ret] IN
        \A x \in 0..(img.width - 1), y \in 0..(img.height - 1) :
            scr[PtrOf(res.args.cr, res.args.x_base + x, res.args.y_base + y) + 1]
                = GetPixel8(img, x, y, "nullptr").colour

\* Such a blit of an image two columns wide and two rows high.
C8_Witness ==
    /\ BlitOnceInside /\ Has8bppFlag(sprites[res.ret])
    /\ res.args.recolour = "identity" /\ FullyOpaque8(sprites[res.ret])
    /\ sprites[res.ret].width = 2 /\ sprites[res.ret].height = 2
    /\ res.args.x_base = 1

\* Every line of a 32bpp image sums to the width and holds only runs of
\* kind 0.
OnlyOpaqueRuns32(img) ==
    /\ \A i \in 1..Len(Lines32(img)) : Lines32(img)[i].xpos = img.width
    /\ \A m \in Modes32(img) : ModeKind(Rd(img.data, m, 0)) = 0

\* C9: one placement of a 32bpp image of opaque runs only, blitted with
\* the normal shift into a rectangle that holds it, leaves at every
\* position (x_base + x, y_base + y) the colour GetPixel(x, y) returns.
C9_BlitMatchesGetPixel32 ==
    (BlitOnceInside /\ ~Has8bppFlag(sprites[res.ret])
        /\ res.args.shift = "GS_NORMAL" /\ OnlyOpaqueRuns32(sprites[res.ret])) =>
        LET img == sprites[res.ret] IN
        \A x \in 0..(img.width - 1), y \in 0..(img.height - 1) :
            scr[PtrOf(res.args.cr, res.args.x_base + x, res.args.y_base + y) + 1]
                = GetPixel32(img, x, y, "nullptr", "GS_NORMAL", 0).colour

\* C10: every write of a blit, by BlitImages of either format or by
\* BlitPixel alone, is made at a position inside the clipped rectangle and
\* through the pointer of that position, and no BlitPixel call goes on to
\* another tile row after one at or below the rectangle's bottom.
C10_WritesInsideClip ==
    res.op \in {"BlitImages", "BlitPixel"} =>
        /\ \A w \in res.writes :
              /\ 0 <= w.x /\ w.x < res.args.cr.width
              /\ 0 <= w.y /\ w.y < res.args.cr.height
              /\ w.ptr = PtrOf(res.args.cr, w.x, w.y)
        /\ ~res.overrun

\* A tiled blit whose last tile column starts right of the rectangle and
\* whose last BlitPixel call ended at a tile row below its bottom.
C10_Witness ==
    /\ res.op = "BlitImages"
    /\ res.args.x_base + (res.args.numx - 1) * sprites[res.ret].width
          >= res.args.cr.width
    /\ res.writes # {}
    /\ Len(res.visits) > 1
    /\ res.visits[Len(res.visits)] >= res.args.cr.height

\* The writes of a finished blit that are placements of the source pixel
\* whose first placement is at (x, y): the tile placements lie width
\* columns and height rows apart.
PlacementsOf(x, y) ==
    {w \in res.writes :
        /\ (w.x - x) % sprites[res.ret].width = 0
        /\ (w.y - y) % sprites[res.ret].height = 0}

\* C15: in a tiled blit of either format, every placement written for a
\* source pixel that is blended holds the blend of the source colour with
\* the pixel that was at that placement before the blit (no position is
\* written twice in one blit).
C15_BlendsWithOwnBackground ==
    (res.op = "BlitImages" /\ (res.args.numx > 1 \/ res.args.numy > 1)) =>
        \A bl \in res.blends : \A w \in PlacementsOf(bl.x, bl.y) :
            scr[w.ptr + 1] = BlendPixels(bl.r, bl.g, bl.b,
                                         Background(res.args.cr)[w.ptr + 1], bl.opacity)

\* C16: every read of the surface that a blit of either format makes to
\* get the pixel to blend with is at a position inside the clipped
\* rectangle, wherever x_base and y_base put the image.
C16_BlendReadsInsideClip ==
    res.op = "BlitImages" =>
        \A r \in res.dreads :
            /\ 0 <= r.x /\ r.x < res.args.cr.width
            /\ 0 <= r.y /\ r.y < res.args.cr.height

-----------------------------------------------------------------------------
(* Claims about BlendPixels, under SpecBlend.                              *)

\* The red, green and blue channels of a colour.
RGBOf(c) == <<GetR(c), GetG(c), GetB(c)>>

\* C11: BlendPixels with opacity OPAQUE returns the R, G, B of the new
\* pixel unchanged whatever the background, and with opacity 0 returns
\* the R, G, B of the background unchanged whatever the new pixel.
C11_BlendEndpoints ==
    res.op = "BlendPixels" =>
        /\ res.opacity = OPAQUE => RGBOf(res.colour) = <<res.r, res.g, res.b>>
        /\ res.opacity = 0 => RGBOf(res.colour) = RGBOf(res.old_pixel)

-----------------------------------------------------------------------------
(* Claims about Date, under SpecDate.                                      *)

\* The date fits the compressed encoding.
Representable(d) ==
    /\ 1 <= d.day /\ d.day <= DaysPerMonth(d.month)
    /\ FIRST_MONTH <= d.month /\ d.month <= LAST_MONTH
    /\ 1 <= d.year /\ d.year < 2 ^ CDB_YEAR_LENGTH
    /\ 0 <= d.frac /\ d.frac < TICK_COUNT_PER_DAY

\* C17: every date that OnTick calls reach from the default date fits the
\* compressed encoding (day within the month, month 3..9, year 1..127,
\* frac 0..299), and building a Date from its Compress() passes the
\* constructor's assertions and gives the same day, month, year and frac.
C17_AlwaysRepresentable ==
    /\ res.op \in {"none", "OnTick"} => Representable(date)
    /\ res.op = "SaveLoad" => res.asserts /\ date = res.before

\* Day, month and frac stay in range on every tick, and the date survives
\* the encoding whenever its year is below 2^7.
C17_RepresentableButYear ==
    /\ res.op \in {"none", "OnTick"} =>
          Representable([date EXCEPT !.year = 1]) /\ date.year >= 1
    /\ (res.op = "SaveLoad" /\ res.before.year < 2 ^ CDB_YEAR_LENGTH) =>
          res.asserts /\ date = res.before

====
